---- MODULE Spec2Model ----
(***************************************************************************)
(* A model of the cursor-replay viewer (day-of-cursor): the playback       *)
(* scheduler of TimelineViewerVideo and the frame-seek synchronizer of     *)
(* ScreenshotDisplayVideo.                                                 *)
(*                                                                         *)
(* Granularity.  The viewer runs on one JavaScript event loop.  One action *)
(* of the model is one event (a click, a key, a timer callback, a media    *)
(* event) together with the React render and the effects that the state    *)
(* updates of its handler cause, up to the next quiescent state.           *)
(*                                                                         *)
(* Units.  Times are integers in milliseconds: a sample's timestamp is the *)
(* CSV's float seconds times 1000 (the conversion of line 199), and the    *)
(* playback speed is kept in tenths (the speed slider's step is 0.1).      *)
(***************************************************************************)
EXTENDS Integers, Sequences, FiniteSets, TLC

VARIABLES
    timelineData,     \* the samples, a sequence of [frame_number, timestamp]
    currentIndex,     \* useState(0), 0-based index into timelineData
    isPlaying,        \* useState(false)
    playbackSpeed,    \* useState(1), in tenths
    playingIndexRef,  \* useRef(currentIndex)
    playIntervalRef,  \* useRef(null): a setTimeout id, 0 when null
    timers,           \* the event loop's pending setTimeout callbacks
    isFpsMode,        \* useState(false): POV mode
    isBlinkEnabled,   \* useState(true)
    isSeeking,        \* ScreenshotDisplayVideo useState(false)
    pendingData,      \* useState(null): index of the sample a seek was issued for, -1 when null
    readyState,       \* <video>: 0 HAVE_NOTHING, 1 HAVE_METADATA, 2 HAVE_CURRENT_DATA or more
    mediaTime,        \* <video>.currentTime in ms
    mediaDuration,    \* <video>: length of the media resource in ms
    mediaSeeking,     \* <video>: a seek is in progress
    mediaEvents,      \* <video>: queued "seeking" / "seeked" events, oldest first
    overlay,          \* the geometry last written by updateDisplay: [index, fps], index -1 when never
    lastAlign,        \* observer: what the last run of the seek effect found and did
    naturalSize,      \* <video>.videoWidth / videoHeight, 0 x 0 until the metadata is loaded
    displayedSize,    \* <video>.clientWidth / clientHeight
    containerRect,    \* the wrapper's getBoundingClientRect(): [width, height]
    videoStyle,       \* <video>.style as updateDisplay wrote it: [transform]
    cursorStyle,      \* the marker's style as updateDisplay wrote it: [left, top, transform]
    availableTags,    \* AppVideo useState([])
    selectedTag,      \* AppVideo useState("")
    videoSrc,         \* AppVideo useState(""): the tag the media URL was built from
    dataTag,          \* observer: the tag timelineData was loaded from, "" when none
    loading,          \* AppVideo useState(true)
    error,            \* AppVideo useState(null): a message, "null" when null
    fetches,          \* the requests in flight: [url, tag]
    mediaError,       \* <video>.error is set: the media resource could not be loaded
    lastEvent,        \* observer: the scheduler event handled last
    prev,             \* observer: currentIndex, isPlaying and timers before that event
    playFrom,         \* observer: index an uninterrupted playback started at, -1 when none
    elapsed           \* observer: ms since that playback was commanded

schedVars == <<isPlaying, playbackSpeed, playingIndexRef, playIntervalRef, timers,
               prev, playFrom, elapsed>>

syncVars == <<isFpsMode, isBlinkEnabled, isSeeking, pendingData, readyState, mediaTime,
              mediaDuration, mediaSeeking, mediaEvents, overlay, lastAlign>>

geomVars == <<naturalSize, displayedSize, containerRect, videoStyle, cursorStyle>>

appVars == <<availableTags, selectedTag, videoSrc, dataTag, loading, error, fetches, mediaError>>

vars == <<timelineData, currentIndex, lastEvent, schedVars, syncVars, geomVars, appVars>>

---------------------------------------------------------------------------
(* Bounds and program constants *)

MaxLen == 3

MaxGap == 2

VideoFPS == 10

MsPerSecond == 1000

SpeedUnit == 10

FramePeriodMs == MsPerSecond \div VideoFPS

TickMs == FramePeriodMs \div 4

InitialSpeed == 1 * SpeedUnit

Speeds == {SpeedUnit \div 2, SpeedUnit, 2 * SpeedUnit}

Min(a, b) == IF a < b THEN a ELSE b

Max(a, b) == IF a > b THEN a ELSE b

---------------------------------------------------------------------------
(* Sample store *)

RECURSIVE SumGaps(_, _)
SumGaps(g, k) == IF k = 0 THEN 0 ELSE g[k] + SumGaps(g, k - 1)

\* Sample sequences of length n: frame numbers 0..n-1, timestamps non-decreasing,
\* consecutive samples 0..MaxGap capture periods apart.
TimelinesOfLen(n) ==
    { [i \in 1..n |-> [frame_number |-> i - 1,
                       timestamp |-> FramePeriodMs * SumGaps(g, i - 1)]] :
        g \in [1..(n - 1) -> 0..MaxGap] }

Timelines == UNION { TimelinesOfLen(n) : n \in 1..MaxLen }

Sample(i) == timelineData[i + 1]

NumSamples == Len(timelineData)

---------------------------------------------------------------------------
(* Playback scheduler (TimelineViewerVideo) *)

\* setTimeout's handle: the smallest positive id no pending timer holds.
FreshId(pending) ==
    CHOOSE id \in 1..(Cardinality(pending) + 1) : \A t \in pending : t.id # id

\* Mutants of AdjustedInterval: the legacy viewer's fixed tick (100 / playbackSpeed)
\* instead of the samples' own time difference; the speed left out.
AdjustedInterval_FixedTick(index, speed) ==
    (FramePeriodMs * SpeedUnit) \div speed

AdjustedInterval_NoSpeed(index, speed) ==
    Sample(index + 1).timestamp - Sample(index).timestamp

AdjustedInterval(index, speed) ==
    LET timeDiff == Sample(index + 1).timestamp - Sample(index).timestamp
    IN  (timeDiff * SpeedUnit) \div speed

\* Mutant of ClearTimeout: the handle is dropped, the callback stays pending.
ClearTimeout_HandleOnly(pending, handle) ==
    [timers |-> pending, handle |-> 0]

ClearTimeout(pending, handle) ==
    IF handle # 0
    THEN [timers |-> { t \in pending : t.id # handle }, handle |-> 0]
    ELSE [timers |-> pending, handle |-> handle]

\* Mutant of AdvanceFrame: the end of the sequence does not stop playback.
AdvanceFrame_NoStop(index, speed, pending, handle) ==
    IF index >= NumSamples - 1
    THEN [stopped |-> FALSE, timers |-> pending, handle |-> handle]
    ELSE LET t == [id |-> FreshId(pending),
                   nextIndex |-> index + 1,
                   delay |-> AdjustedInterval(index, speed),
                   waited |-> 0,
                   speed |-> speed]
         IN  [stopped |-> FALSE, timers |-> pending \cup {t}, handle |-> t.id]

\* One run of advanceFrame from `index`, in an effect whose closure holds `speed`.
AdvanceFrame(index, speed, pending, handle) ==
    IF index >= NumSamples - 1
    THEN [stopped |-> TRUE, timers |-> pending, handle |-> handle]
    ELSE LET t == [id |-> FreshId(pending),
                   nextIndex |-> index + 1,
                   delay |-> AdjustedInterval(index, speed),
                   waited |-> 0,
                   speed |-> speed]
         IN  [stopped |-> FALSE, timers |-> pending \cup {t}, handle |-> t.id]

\* The playback effect's body for a render with isPlaying = playing; when
\* advanceFrame stops at once, the render that setIsPlaying(false) causes is
\* included (its cleanup, then the else branch).
RunEffect(playing, index, speed, pending, handle) ==
    IF playing
    THEN LET r == AdvanceFrame(index, speed, pending, handle)
         IN  IF r.stopped
             THEN LET c == ClearTimeout(r.timers, r.handle)
                  IN  [isPlaying |-> FALSE, timers |-> c.timers, handle |-> c.handle]
             ELSE [isPlaying |-> TRUE, timers |-> r.timers, handle |-> r.handle]
    ELSE LET c == ClearTimeout(pending, handle)
         IN  [isPlaying |-> FALSE, timers |-> c.timers, handle |-> c.handle]

\* Mutant of EffectCleanup: the effect returns no cleanup.
EffectCleanup_None(pending, handle) ==
    [timers |-> pending, handle |-> handle]

\* The cleanup the previous run of the playback effect returned (only a run
\* with isPlaying = true returns one).
EffectCleanup(pending, handle) ==
    IF isPlaying
    THEN ClearTimeout(pending, handle)
    ELSE [timers |-> pending, handle |-> handle]

\* The render after a handler set the state to (newIndex, newPlaying, newSpeed),
\* and its effects in declaration order: the playingIndexRef sync, then the
\* playback effect when one of its dependencies changed.
Commit(newIndex, newPlaying, newSpeed, ref, pending, handle) ==
    LET ref1 == IF newIndex # currentIndex THEN newIndex ELSE ref
        c == EffectCleanup(pending, handle)
        e == IF newPlaying # isPlaying \/ newSpeed # playbackSpeed
             THEN RunEffect(newPlaying, ref1, newSpeed, c.timers, c.handle)
             ELSE [isPlaying |-> newPlaying, timers |-> pending, handle |-> handle]
    IN  /\ currentIndex' = newIndex
        /\ playbackSpeed' = newSpeed
        /\ playingIndexRef' = ref1
        /\ isPlaying' = e.isPlaying
        /\ timers' = e.timers
        /\ playIntervalRef' = e.handle

\* Observers: the event and the state it found; a play command starts an
\* uninterrupted run, any other input ends it.
Observe(event) ==
    /\ lastEvent' = event
    /\ prev' = [index |-> currentIndex, isPlaying |-> isPlaying, timers |-> timers]

ObservePlay(event) ==
    /\ Observe(event)
    /\ playFrom' = IF isPlaying' /\ ~isPlaying THEN playingIndexRef' ELSE -1
    /\ elapsed' = 0

ObserveInput(event) ==
    /\ Observe(event)
    /\ playFrom' = -1
    /\ elapsed' = 0

\* Mutant of KeyArrowRight: the step is not clamped to the last index.
KeyArrowRight_NoClamp ==
    /\ Commit(currentIndex + 1, isPlaying, playbackSpeed,
              playingIndexRef, timers, playIntervalRef)
    /\ ObserveInput("ArrowRight")
    /\ UNCHANGED <<timelineData, syncVars, geomVars, appVars>>

\* Mutant of SetPlaybackSpeed: playbackSpeed is missing from the playback
\* effect's dependencies, so the effect does not run again.
SetPlaybackSpeed_NoEffect(speed) ==
    /\ speed # playbackSpeed
    /\ playbackSpeed' = speed
    /\ ObserveInput("Speed")
    /\ UNCHANGED <<timelineData, currentIndex, isPlaying, playingIndexRef,
                   playIntervalRef, timers, syncVars, geomVars, appVars>>

\* The handlers proper: what each does to the scheduler's state.
HandlePlayPauseStep ==
    IF currentIndex >= NumSamples - 1
    THEN Commit(0, TRUE, playbackSpeed, playingIndexRef, timers, playIntervalRef)
    ELSE Commit(currentIndex, ~isPlaying, playbackSpeed, playingIndexRef,
                timers, playIntervalRef)

KeySpaceStep ==
    Commit(currentIndex, ~isPlaying, playbackSpeed, playingIndexRef,
           timers, playIntervalRef)

KeyArrowRightStep ==
    Commit(Min(currentIndex + 1, NumSamples - 1), isPlaying, playbackSpeed,
           playingIndexRef, timers, playIntervalRef)

KeyArrowLeftStep ==
    Commit(Max(currentIndex - 1, 0), isPlaying, playbackSpeed,
           playingIndexRef, timers, playIntervalRef)

HandleSliderChangeStep(index) ==
    Commit(index, FALSE, playbackSpeed, playingIndexRef, timers, playIntervalRef)

SetPlaybackSpeedStep(speed) ==
    /\ speed # playbackSpeed
    /\ Commit(currentIndex, isPlaying, speed, playingIndexRef, timers, playIntervalRef)

\* A due setTimeout callback: setCurrentIndex(nextIndex), the ref, advanceFrame().
TimerFireStep(t) ==
    /\ t \in timers
    /\ t.waited >= t.delay
    /\ LET r == AdvanceFrame(t.nextIndex, t.speed, timers \ {t}, playIntervalRef)
       IN  Commit(t.nextIndex, IF r.stopped THEN FALSE ELSE isPlaying, playbackSpeed,
                  t.nextIndex, r.timers, r.handle)

\* Wall-clock time passes while no pending timer is due.
TickStep ==
    /\ timers # {}
    /\ \A t \in timers : t.waited < t.delay
    /\ timers' = { [t EXCEPT !.waited = @ + TickMs] : t \in timers }
    /\ UNCHANGED <<currentIndex, isPlaying, playbackSpeed, playingIndexRef,
                   playIntervalRef>>

\* The same with the observers, the display component left as it is.
HandlePlayPause ==
    /\ HandlePlayPauseStep
    /\ ObservePlay("PlayPause")
    /\ UNCHANGED <<timelineData, syncVars, geomVars, appVars>>

KeySpace ==
    /\ KeySpaceStep
    /\ ObservePlay("Space")
    /\ UNCHANGED <<timelineData, syncVars, geomVars, appVars>>

KeyArrowRight ==
    /\ KeyArrowRightStep
    /\ ObserveInput("ArrowRight")
    /\ UNCHANGED <<timelineData, syncVars, geomVars, appVars>>

KeyArrowLeft ==
    /\ KeyArrowLeftStep
    /\ ObserveInput("ArrowLeft")
    /\ UNCHANGED <<timelineData, syncVars, geomVars, appVars>>

HandleSliderChange(index) ==
    /\ HandleSliderChangeStep(index)
    /\ ObserveInput("Slider")
    /\ UNCHANGED <<timelineData, syncVars, geomVars, appVars>>

SetPlaybackSpeed(speed) ==
    /\ SetPlaybackSpeedStep(speed)
    /\ ObserveInput("Speed")
    /\ UNCHANGED <<timelineData, syncVars, geomVars, appVars>>

TimerFire(t) ==
    /\ TimerFireStep(t)
    /\ Observe("Timer")
    /\ UNCHANGED <<timelineData, playFrom, elapsed, syncVars, geomVars, appVars>>

Tick ==
    /\ TickStep
    /\ Observe("Tick")
    /\ elapsed' = IF playFrom >= 0 THEN elapsed + TickMs ELSE 0
    /\ UNCHANGED <<timelineData, playFrom, syncVars, geomVars, appVars>>

\* TimelineViewerVideo's state at mount.
SchedulerInit ==
    /\ currentIndex = 0
    /\ isPlaying = FALSE
    /\ playbackSpeed = InitialSpeed
    /\ playingIndexRef = 0
    /\ playIntervalRef = 0
    /\ timers = {}
    /\ prev = [index |-> 0, isPlaying |-> FALSE, timers |-> {}]
    /\ playFrom = -1
    /\ elapsed = 0

NoOverlay == [index |-> -1, fps |-> FALSE]

\* Sizes before anything is laid out or loaded, and the styles before the
\* first write of updateDisplay (whatever the stylesheet gives).
NoSize == [width |-> 0, height |-> 0]

NoVideoStyle ==
    [transform |-> "unset", x |-> [num |-> 0, den |-> 1], y |-> [num |-> 0, den |-> 1]]

NoCursorStyle ==
    [unit |-> "unset", left |-> [num |-> 0, den |-> 1], top |-> [num |-> 0, den |-> 1],
     transform |-> "unset"]

GeometryIdle ==
    /\ naturalSize = NoSize
    /\ displayedSize = NoSize
    /\ containerRect = NoSize
    /\ videoStyle = NoVideoStyle
    /\ cursorStyle = NoCursorStyle

\* The recordings the server lists, and AppVideo's error when null.
Tags == <<"a", "b">>

NoError == "null"

\* AppVideo rendering the viewer for the first recording, nothing in flight.
AppShowsViewer ==
    /\ availableTags = Tags
    /\ selectedTag = Tags[1]
    /\ videoSrc = Tags[1]
    /\ dataTag = Tags[1]
    /\ loading = FALSE
    /\ error = NoError
    /\ fetches = {}
    /\ mediaError = FALSE

NoAlign == [mediaBefore |-> 0, seekTo |-> -1, updated |-> FALSE]

\* The scheduler on its own: the display component and the media stay as
\* they are before the first render.
Init ==
    /\ timelineData \in Timelines
    /\ SchedulerInit
    /\ lastEvent = "Mount"
    /\ isFpsMode = FALSE
    /\ isBlinkEnabled = TRUE
    /\ isSeeking = FALSE
    /\ pendingData = -1
    /\ readyState = 0
    /\ mediaTime = 0
    /\ mediaDuration = 0
    /\ mediaSeeking = FALSE
    /\ mediaEvents = <<>>
    /\ overlay = NoOverlay
    /\ lastAlign = NoAlign
    /\ GeometryIdle
    /\ AppShowsViewer

Next ==
    \/ HandlePlayPause
    \/ KeySpace
    \/ KeyArrowRight
    \/ KeyArrowLeft
    \/ \E index \in 0..(NumSamples - 1) : HandleSliderChange(index)
    \/ \E speed \in Speeds : SetPlaybackSpeed(speed)
    \/ \E t \in timers : TimerFire(t)
    \/ Tick

Spec == Init /\ [][Next]_vars

\* The event loop's part of the scheduler: time passes and due callbacks run.
TimerStep ==
    \/ \E t \in timers : TimerFire(t)
    \/ Tick

\* The scheduler with the event loop's guarantee: a pending timeout's delay
\* elapses, and a due callback is run.
LiveSpec == Init /\ [][Next]_vars /\ WF_vars(TimerStep)

---------------------------------------------------------------------------
(* Frame-seek synchronizer (ScreenshotDisplayVideo) and the <video> element *)

MaxFrame == 3

MaxEvents == 2

ToleranceMs == 50

Abs(x) == IF x < 0 THEN -x ELSE x

\* Sample sequences of length n with frame numbers 0..MaxFrame in ascending
\* order (several samples may share a frame), timestamps one capture period
\* per frame.
FrameTimelinesOfLen(n) ==
    { [i \in 1..n |-> [frame_number |-> f[i], timestamp |-> FramePeriodMs * f[i]]] :
        f \in { g \in [1..n -> 0..MaxFrame] :
                   \A i \in 1..(n - 1) : g[i] <= g[i + 1] } }

FrameTimelines == UNION { FrameTimelinesOfLen(n) : n \in 1..MaxLen }

\* Media lengths: long enough for every frame, and ending ToleranceMs, or one
\* ms more, before the last frame's time.
MediaDurations ==
    { (MaxFrame + 1) * FramePeriodMs,
      MaxFrame * FramePeriodMs - ToleranceMs,
      MaxFrame * FramePeriodMs - ToleranceMs - 1 }

\* Mutant of TargetTime: the media is taken to run at 30 frames per second.
TargetTime_Fps30(frame_number) == (frame_number * MsPerSecond) \div (3 * VideoFPS)

TargetTime(frame_number) == (frame_number * MsPerSecond) \div VideoFPS

\* Mutant of NeedsSeek: the tolerance's boundary counts as out of tolerance.
NeedsSeek_Inclusive(currentTime, frame_number) ==
    Abs(currentTime - TargetTime(frame_number)) >= ToleranceMs

NeedsSeek(currentTime, frame_number) ==
    Abs(currentTime - TargetTime(frame_number)) > ToleranceMs

\* updateDisplay for sample `index` in mode `fps`: a no-op until the media's
\* natural size is known (readyState HAVE_METADATA), else the geometry is
\* written from that sample.
UpdateDisplay(index, fps, ready, shown) ==
    IF ready = 0 THEN shown ELSE [index |-> index, fps |-> fps]

\* video.currentTime = target.  Before the metadata is there the element only
\* records the position to start at; after, it seeks: the position moves (not
\* past the end of the media), any seek in progress is superseded and a
\* "seeking" event is queued.
SetCurrentTime(target, ready, duration, seeking, events) ==
    IF ready = 0
    THEN [time |-> target, seeking |-> seeking, events |-> events]
    ELSE [time |-> Min(target, duration), seeking |-> TRUE,
          events |-> Append(events, "seeking")]

\* The effects of the commit that follows a change of data or of isFpsMode:
\* the seek effect, then the update-when-not-seeking effect, which still sees
\* the isSeeking of the render (`seeking0`).
SeekEffectOn(frame, index, fps, seeking0, pending0, ready, time, duration, mseeking, events, shown) ==
    LET seek == NeedsSeek(time, frame)
        m == SetCurrentTime(TargetTime(frame), ready, duration, mseeking, events)
        shown1 == IF seek THEN shown ELSE UpdateDisplay(index, fps, ready, shown)
        shown2 == IF ~seeking0 /\ ready >= 2
                  THEN UpdateDisplay(index, fps, ready, shown1)
                  ELSE shown1
    IN  [isSeeking |-> IF seek THEN TRUE ELSE seeking0,
         pendingData |-> IF seek THEN index ELSE pending0,
         time |-> IF seek THEN m.time ELSE time,
         seeking |-> IF seek THEN m.seeking ELSE mseeking,
         events |-> IF seek THEN m.events ELSE events,
         overlay |-> shown2,
         align |-> [mediaBefore |-> time,
                    seekTo |-> IF seek THEN TargetTime(frame) ELSE -1,
                    updated |-> ~seek]]

SeekEffect(index, fps, seeking0, pending0, ready, time, duration, mseeking, events, shown) ==
    SeekEffectOn(Sample(index).frame_number, index, fps, seeking0, pending0, ready, time,
                 duration, mseeking, events, shown)

\* The commit for sample `index` in mode `fps`, from the current state.
AlignTo(index, fps) ==
    LET r == SeekEffect(index, fps, isSeeking, pendingData, readyState, mediaTime,
                        mediaDuration, mediaSeeking, mediaEvents, overlay)
    IN  /\ isSeeking' = r.isSeeking
        /\ pendingData' = r.pendingData
        /\ mediaTime' = r.time
        /\ mediaSeeking' = r.seeking
        /\ mediaEvents' = r.events
        /\ overlay' = r.overlay
        /\ lastAlign' = r.align

\* The parent renders with another currentIndex: `data` is a new sample.
SelectSampleStep(index) ==
    /\ index # currentIndex
    /\ Len(mediaEvents) < MaxEvents
    /\ currentIndex' = index
    /\ AlignTo(index, isFpsMode)
    /\ UNCHANGED <<isFpsMode, isBlinkEnabled, readyState, mediaDuration>>

\* updateDisplay depends on isFpsMode, and the seek effect on updateDisplay.
ToggleFpsModeStep ==
    /\ Len(mediaEvents) < MaxEvents
    /\ isFpsMode' = ~isFpsMode
    /\ AlignTo(currentIndex, ~isFpsMode)
    /\ UNCHANGED <<currentIndex, isBlinkEnabled, readyState, mediaDuration>>

\* Mutant of ToggleBlinkStep: isBlinkEnabled is among updateDisplay's
\* dependencies, so the seek effect runs again.
ToggleBlinkStep_Realign ==
    /\ isFpsMode
    /\ Len(mediaEvents) < MaxEvents
    /\ isBlinkEnabled' = ~isBlinkEnabled
    /\ AlignTo(currentIndex, isFpsMode)
    /\ UNCHANGED <<currentIndex, isFpsMode, readyState, mediaDuration>>

\* The blink checkbox exists in POV mode only; no effect depends on it.
ToggleBlinkStep ==
    /\ isFpsMode
    /\ isBlinkEnabled' = ~isBlinkEnabled
    /\ UNCHANGED <<currentIndex, isFpsMode, isSeeking,
                   pendingData, readyState, mediaTime, mediaDuration, mediaSeeking,
                   mediaEvents, overlay, lastAlign>>

WindowResizeStep ==
    /\ overlay' = UpdateDisplay(currentIndex, isFpsMode, readyState, overlay)
    /\ UNCHANGED <<currentIndex, isFpsMode, isBlinkEnabled,
                   isSeeking, pendingData, readyState, mediaTime, mediaDuration,
                   mediaSeeking, mediaEvents, lastAlign>>

\* loadedmetadata: the natural size is known, handleVideoLoad runs, and the
\* element seeks to the start position recorded before, if any.
HandleVideoLoadStep ==
    /\ readyState = 0
    /\ readyState' = 1
    /\ overlay' = UpdateDisplay(currentIndex, isFpsMode, 1, overlay)
    /\ LET m == IF mediaTime > 0
                THEN SetCurrentTime(mediaTime, 1, mediaDuration, mediaSeeking,
                                    mediaEvents)
                ELSE [time |-> mediaTime, seeking |-> mediaSeeking,
                      events |-> mediaEvents]
       IN  /\ mediaTime' = m.time
           /\ mediaSeeking' = m.seeking
           /\ mediaEvents' = m.events
    /\ UNCHANGED <<currentIndex, isFpsMode, isBlinkEnabled,
                   isSeeking, pendingData, mediaDuration, lastAlign>>

\* The first frame is decoded (loadeddata): no handler listens.
MediaLoadedDataStep ==
    /\ readyState = 1
    /\ readyState' = 2
    /\ UNCHANGED <<currentIndex, isFpsMode, isBlinkEnabled,
                   isSeeking, pendingData, mediaTime, mediaDuration, mediaSeeking,
                   mediaEvents, overlay, lastAlign>>

\* The element finishes the seek in progress and queues "seeked".
MediaSeekCompletesStep ==
    /\ mediaSeeking
    /\ mediaSeeking' = FALSE
    /\ mediaEvents' = Append(mediaEvents, "seeked")
    /\ UNCHANGED <<currentIndex, isFpsMode, isBlinkEnabled,
                   isSeeking, pendingData, readyState, mediaTime, mediaDuration,
                   overlay, lastAlign>>

HandleSeekingStep ==
    /\ mediaEvents # <<>>
    /\ Head(mediaEvents) = "seeking"
    /\ mediaEvents' = Tail(mediaEvents)
    /\ isSeeking' = TRUE
    /\ UNCHANGED <<currentIndex, isFpsMode, isBlinkEnabled,
                   pendingData, readyState, mediaTime, mediaDuration, mediaSeeking,
                   overlay, lastAlign>>

\* handleSeeked, then the update-when-not-seeking effect of the render that
\* setIsSeeking(false) causes when isSeeking was true.
HandleSeekedStep ==
    /\ mediaEvents # <<>>
    /\ Head(mediaEvents) = "seeked"
    /\ mediaEvents' = Tail(mediaEvents)
    /\ isSeeking' = FALSE
    /\ pendingData' = -1
    /\ LET shown1 == IF pendingData # -1
                     THEN UpdateDisplay(currentIndex, isFpsMode, readyState, overlay)
                     ELSE overlay
       IN  overlay' = IF isSeeking /\ readyState >= 2
                      THEN UpdateDisplay(currentIndex, isFpsMode, readyState, shown1)
                      ELSE shown1
    /\ UNCHANGED <<currentIndex, isFpsMode, isBlinkEnabled,
                   readyState, mediaTime, mediaDuration, mediaSeeking, lastAlign>>

\* The same as actions of the display component on its own: the scheduler,
\* the projected styles and the application stay as they are.
SelectSample(index) ==
    /\ SelectSampleStep(index)
    /\ UNCHANGED <<timelineData, lastEvent, schedVars, geomVars, appVars>>

ToggleFpsMode ==
    /\ ToggleFpsModeStep
    /\ UNCHANGED <<timelineData, lastEvent, schedVars, geomVars, appVars>>

ToggleBlink ==
    /\ ToggleBlinkStep
    /\ UNCHANGED <<timelineData, lastEvent, schedVars, geomVars, appVars>>

WindowResize ==
    /\ WindowResizeStep
    /\ UNCHANGED <<timelineData, lastEvent, schedVars, geomVars, appVars>>

HandleVideoLoad ==
    /\ HandleVideoLoadStep
    /\ UNCHANGED <<timelineData, lastEvent, schedVars, geomVars, appVars>>

MediaLoadedData ==
    /\ MediaLoadedDataStep
    /\ UNCHANGED <<timelineData, lastEvent, schedVars, geomVars, appVars>>

MediaSeekCompletes ==
    /\ MediaSeekCompletesStep
    /\ UNCHANGED <<timelineData, lastEvent, schedVars, geomVars, appVars>>

HandleSeeking ==
    /\ HandleSeekingStep
    /\ UNCHANGED <<timelineData, lastEvent, schedVars, geomVars, appVars>>

HandleSeeked ==
    /\ HandleSeekedStep
    /\ UNCHANGED <<timelineData, lastEvent, schedVars, geomVars, appVars>>

\* ScreenshotDisplayVideo after its first commit, showing sample 0 with the
\* media at 0 and nothing loaded yet.
DisplayMount ==
    /\ isFpsMode = FALSE
    /\ isBlinkEnabled = TRUE
    /\ readyState = 0
    /\ LET r == SeekEffect(0, FALSE, FALSE, -1, 0, 0, mediaDuration, FALSE, <<>>,
                           NoOverlay)
       IN  /\ isSeeking = r.isSeeking
           /\ pendingData = r.pendingData
           /\ mediaTime = r.time
           /\ mediaSeeking = r.seeking
           /\ mediaEvents = r.events
           /\ overlay = r.overlay
           /\ lastAlign = r.align

SyncInit ==
    /\ timelineData \in FrameTimelines
    /\ mediaDuration \in MediaDurations
    /\ SchedulerInit
    /\ lastEvent = "Mount"
    /\ GeometryIdle
    /\ AppShowsViewer
    /\ DisplayMount

\* The display component and the media under every sample selection the parent
\* can make (the slider reaches every index).  ToggleBlink, which no effect
\* and no handler reads, is left to BlinkSpec.
SyncNext ==
    \/ \E index \in 0..(NumSamples - 1) : SelectSample(index)
    \/ ToggleFpsMode
    \/ WindowResize
    \/ HandleVideoLoad
    \/ MediaLoadedData
    \/ MediaSeekCompletes
    \/ HandleSeeking
    \/ HandleSeeked

SyncSpec == SyncInit /\ [][SyncNext]_vars

\* The seek in progress fails: the element gives it up and "seeked" is never
\* sent for it.  No handler of the component listens to anything else.
MediaSeekFailsStep ==
    /\ mediaSeeking
    /\ mediaSeeking' = FALSE
    /\ UNCHANGED <<currentIndex, isFpsMode, isBlinkEnabled, isSeeking, pendingData,
                   readyState, mediaTime, mediaDuration, mediaEvents, overlay,
                   lastAlign>>

MediaSeekFails ==
    /\ MediaSeekFailsStep
    /\ UNCHANGED <<timelineData, lastEvent, schedVars, geomVars, appVars>>

\* A seek was requested and nothing of it is left in the media: it is not in
\* progress and no "seeked" waits in the queue.
SeekLost ==
    /\ isSeeking
    /\ pendingData # -1
    /\ readyState >= 1
    /\ ~mediaSeeking
    /\ \A i \in 1..Len(mediaEvents) : mediaEvents[i] # "seeked"

FailNext == SyncNext \/ MediaSeekFails

FailSpec == SyncInit /\ [][FailNext]_vars

---------------------------------------------------------------------------
(* Overlay projector: the geometry updateDisplay writes *)

MaxProjLen == 2

MarkerHalf == 10

Downsample == 2

RECURSIVE GCD(_, _)
GCD(a, b) == IF b = 0 THEN a ELSE GCD(b, a % b)

\* Pixel lengths are exact fractions num / den in lowest terms: the code's
\* doubles without their rounding.  A zero denominator (a division by 0, which
\* JavaScript does not trap) is kept as it is.
Frac(n, d) ==
    IF d = 0
    THEN [num |-> n, den |-> 0]
    ELSE LET g == GCD(Abs(n), d) IN [num |-> n \div g, den |-> d \div g]

FracMul(p, q) == Frac(p.num * q.num, p.den * q.den)

FracSub(p, q) == Frac(p.num * q.den - q.num * p.den, p.den * q.den)

FracEq(p, q) == p.num * q.den = q.num * p.den

\* Recorded cursor positions (full resolution), natural sizes of the media
\* (half resolution), and layouts: the displayed size of the media with the
\* size of the wrapper around it.
Positions == { [x |-> 800, y |-> 600], [x |-> 300, y |-> 1000] }

NaturalSizes == { [width |-> 1000, height |-> 1000], [width |-> 960, height |-> 540] }

Layouts ==
    { [displayed |-> [width |-> 500, height |-> 500],
       container |-> [width |-> 800, height |-> 600]],
      [displayed |-> [width |-> 640, height |-> 360],
       container |-> [width |-> 640, height |-> 480]] }

\* Sample sequences of length n, one frame per sample, each with a recorded
\* cursor position.
ProjTimelinesOfLen(n) ==
    { [i \in 1..n |-> [frame_number |-> i - 1,
                       timestamp |-> FramePeriodMs * (i - 1),
                       x |-> pos[i].x,
                       y |-> pos[i].y]] :
        pos \in [1..n -> Positions] }

ProjTimelines == UNION { ProjTimelinesOfLen(n) : n \in 1..MaxProjLen }

\* Mutant of CursorPoint: the halving of the recorded coordinates is left out.
CursorPoint_NoHalving(data, natural, displayed) ==
    LET scaleX == Frac(displayed.width, natural.width)
        scaleY == Frac(displayed.height, natural.height)
    IN  [x |-> FracMul(Frac(data.x, 1), scaleX),
         y |-> FracMul(Frac(data.y, 1), scaleY)]

\* cursorX, cursorY: the recorded position halved, then scaled from the
\* natural to the displayed size.
CursorPoint(data, natural, displayed) ==
    LET scaleX == Frac(displayed.width, natural.width)
        scaleY == Frac(displayed.height, natural.height)
    IN  [x |-> FracMul(Frac(data.x, Downsample), scaleX),
         y |-> FracMul(Frac(data.y, Downsample), scaleY)]

\* Mutant of FpsStyles: the media is moved the other way.
FpsStyles_Reversed(cursor, container) ==
    LET centerX == Frac(container.width, 2)
        centerY == Frac(container.height, 2)
    IN  [video |-> [transform |-> "translate",
                    x |-> FracSub(cursor.x, centerX),
                    y |-> FracSub(cursor.y, centerY)],
         cursor |-> [unit |-> "%", left |-> Frac(50, 1), top |-> Frac(50, 1),
                     transform |-> "translate(-50%, -50%)"]]

\* POV mode: the media is translated so that the cursor point comes to the
\* wrapper's centre, where the marker is pinned.
FpsStyles(cursor, container) ==
    LET centerX == Frac(container.width, 2)
        centerY == Frac(container.height, 2)
    IN  [video |-> [transform |-> "translate",
                    x |-> FracSub(centerX, cursor.x),
                    y |-> FracSub(centerY, cursor.y)],
         cursor |-> [unit |-> "%", left |-> Frac(50, 1), top |-> Frac(50, 1),
                     transform |-> "translate(-50%, -50%)"]]

\* Direct mode: the media untransformed, the marker's top-left MarkerHalf
\* before the cursor point.
DirectStyles(cursor) ==
    [video |-> [transform |-> "none", x |-> Frac(0, 1), y |-> Frac(0, 1)],
     cursor |-> [unit |-> "px",
                 left |-> FracSub(cursor.x, Frac(MarkerHalf, 1)),
                 top |-> FracSub(cursor.y, Frac(MarkerHalf, 1)),
                 transform |-> "none"]]

\* Mutant of UpdateStyles: no return while the natural size is 0.
UpdateStyles_NoGuard(data, fps, natural, displayed, container, vstyle, cstyle) ==
    LET cursor == CursorPoint(data, natural, displayed)
    IN  IF fps THEN FpsStyles(cursor, container) ELSE DirectStyles(cursor)

\* updateDisplay's writes for sample `data` in mode `fps`, from the styles
\* (vstyle, cstyle) it finds.
UpdateStyles(data, fps, natural, displayed, container, vstyle, cstyle) ==
    IF natural.width = 0 \/ natural.height = 0
    THEN [video |-> vstyle, cursor |-> cstyle]
    ELSE LET cursor == CursorPoint(data, natural, displayed)
         IN  IF fps THEN FpsStyles(cursor, container) ELSE DirectStyles(cursor)

\* The styles after a step in which updateDisplay ran (`called`) for sample
\* `index` in mode `fps`, or did not run.
Restyle(called, index, fps) ==
    LET r == UpdateStyles(Sample(index), fps, naturalSize', displayedSize',
                          containerRect', videoStyle, cursorStyle)
    IN  /\ videoStyle' = IF called THEN r.video ELSE videoStyle
        /\ cursorStyle' = IF called THEN r.cursor ELSE cursorStyle

\* The display component's actions with the styles they write.  A sample change
\* or a mode toggle runs updateDisplay when the seek effect found the media in
\* tolerance or the update-when-not-seeking effect passes its guard.
ProjSelectSample(index) ==
    /\ SelectSampleStep(index)
    /\ UNCHANGED <<naturalSize, displayedSize, containerRect>>
    /\ Restyle(lastAlign'.updated \/ (~isSeeking /\ readyState >= 2), index, isFpsMode)
    /\ UNCHANGED <<timelineData, lastEvent, schedVars, appVars>>

ProjToggleFpsMode ==
    /\ ToggleFpsModeStep
    /\ UNCHANGED <<naturalSize, displayedSize, containerRect>>
    /\ Restyle(lastAlign'.updated \/ (~isSeeking /\ readyState >= 2), currentIndex,
               ~isFpsMode)
    /\ UNCHANGED <<timelineData, lastEvent, schedVars, appVars>>

\* The window is resized to another layout: the listener calls updateDisplay.
ProjWindowResize(layout) ==
    /\ WindowResizeStep
    /\ displayedSize' = layout.displayed
    /\ containerRect' = layout.container
    /\ UNCHANGED naturalSize
    /\ Restyle(TRUE, currentIndex, isFpsMode)
    /\ UNCHANGED <<timelineData, lastEvent, schedVars, appVars>>

\* loadedmetadata: videoWidth and videoHeight are known from now on.
ProjHandleVideoLoad(natural) ==
    /\ HandleVideoLoadStep
    /\ naturalSize' = natural
    /\ UNCHANGED <<displayedSize, containerRect>>
    /\ Restyle(TRUE, currentIndex, isFpsMode)
    /\ UNCHANGED <<timelineData, lastEvent, schedVars, appVars>>

ProjHandleSeeked ==
    /\ HandleSeekedStep
    /\ UNCHANGED <<naturalSize, displayedSize, containerRect>>
    /\ Restyle(pendingData # -1 \/ (isSeeking /\ readyState >= 2), currentIndex,
               isFpsMode)
    /\ UNCHANGED <<timelineData, lastEvent, schedVars, appVars>>

\* The display component mounted in some layout, the media not loaded.
ProjInit ==
    /\ timelineData \in ProjTimelines
    /\ mediaDuration = (MaxProjLen + 1) * FramePeriodMs
    /\ SchedulerInit
    /\ lastEvent = "Mount"
    /\ AppShowsViewer
    /\ DisplayMount
    /\ naturalSize = NoSize
    /\ \E layout \in Layouts :
          /\ displayedSize = layout.displayed
          /\ containerRect = layout.container
    /\ videoStyle = NoVideoStyle
    /\ cursorStyle = NoCursorStyle

ProjNext ==
    \/ \E index \in 0..(NumSamples - 1) : ProjSelectSample(index)
    \/ ProjToggleFpsMode
    \/ \E layout \in Layouts : ProjWindowResize(layout)
    \/ \E natural \in NaturalSizes : ProjHandleVideoLoad(natural)
    \/ MediaLoadedData
    \/ MediaSeekCompletes
    \/ HandleSeeking
    \/ ProjHandleSeeked

ProjSpec == ProjInit /\ [][ProjNext]_vars

---------------------------------------------------------------------------
(* Application (AppVideo): tag list, recording loads, and the viewer it mounts *)

MaxAppLen == 2

\* The frame a recording's CSV can start at.
FirstFrames == {0, 1}

\* The rows of a recording's CSV: one sample per captured frame, from `first`.
AppTimeline(n, first) ==
    [i \in 1..n |-> [frame_number |-> first + i - 1,
                     timestamp |-> FramePeriodMs * (i - 1)]]

AppTimelines == { AppTimeline(n, first) : n \in 1..MaxAppLen, first \in FirstFrames }

\* The length of a recording's media: all its frames.
AppMediaDuration == (MaxAppLen + 1) * FramePeriodMs

\* What /api/tags can answer with.
TagLists == { <<>>, Tags }

TagsRequest == [url |-> "/api/tags", tag |-> ""]

CsvRequest(tag) == [url |-> "mouse_positions.csv", tag |-> tag]

\* AppVideo renders TimelineViewerVideo, and the viewer has a sample to show.
ViewerShown == ~loading /\ error = NoError /\ NumSamples > 0

\* The viewer's state while it is not mounted (the values of a fresh mount).
ViewerAbsent ==
    /\ SchedulerInit
    /\ isFpsMode = FALSE
    /\ isBlinkEnabled = TRUE
    /\ isSeeking = FALSE
    /\ pendingData = -1
    /\ readyState = 0
    /\ mediaTime = 0
    /\ mediaDuration = 0
    /\ mediaSeeking = FALSE
    /\ mediaEvents = <<>>
    /\ overlay = NoOverlay
    /\ lastAlign = NoAlign
    /\ mediaError = FALSE

\* Mutant of ViewerUnmount: the playback effect's cleanup does not run, the
\* pending timeout outlives the component.
ViewerUnmount_NoCleanup ==
    /\ timers' = timers
    /\ currentIndex' = 0
    /\ isPlaying' = FALSE
    /\ playbackSpeed' = InitialSpeed
    /\ playingIndexRef' = 0
    /\ playIntervalRef' = 0
    /\ isFpsMode' = FALSE
    /\ isBlinkEnabled' = TRUE
    /\ isSeeking' = FALSE
    /\ pendingData' = -1
    /\ readyState' = 0
    /\ mediaTime' = 0
    /\ mediaDuration' = 0
    /\ mediaSeeking' = FALSE
    /\ mediaEvents' = <<>>
    /\ overlay' = NoOverlay
    /\ lastAlign' = NoAlign
    /\ mediaError' = FALSE

\* AppVideo renders <Loading /> in place of the viewer: the playback effect's
\* cleanup runs, the component's state and refs and the <video> element with
\* its seek and its queued events are gone.
ViewerUnmount ==
    /\ timers' = EffectCleanup(timers, playIntervalRef).timers
    /\ currentIndex' = 0
    /\ isPlaying' = FALSE
    /\ playbackSpeed' = InitialSpeed
    /\ playingIndexRef' = 0
    /\ playIntervalRef' = 0
    /\ isFpsMode' = FALSE
    /\ isBlinkEnabled' = TRUE
    /\ isSeeking' = FALSE
    /\ pendingData' = -1
    /\ readyState' = 0
    /\ mediaTime' = 0
    /\ mediaDuration' = 0
    /\ mediaSeeking' = FALSE
    /\ mediaEvents' = <<>>
    /\ overlay' = NoOverlay
    /\ lastAlign' = NoAlign
    /\ mediaError' = FALSE

\* A fresh TimelineViewerVideo is mounted on `data`: useState / useRef initial
\* values, a new <video> element, and the display component's first commit for
\* sample 0.  Timeouts still pending in the event loop stay pending.
ViewerMount(data) ==
    /\ currentIndex' = 0
    /\ isPlaying' = FALSE
    /\ playbackSpeed' = InitialSpeed
    /\ playingIndexRef' = 0
    /\ playIntervalRef' = 0
    /\ timers' = timers
    /\ isFpsMode' = FALSE
    /\ isBlinkEnabled' = TRUE
    /\ readyState' = 0
    /\ mediaDuration' = AppMediaDuration
    /\ mediaError' = FALSE
    /\ LET r == SeekEffectOn(data[1].frame_number, 0, FALSE, FALSE, -1, 0, 0,
                             AppMediaDuration, FALSE, <<>>, NoOverlay)
       IN  /\ isSeeking' = r.isSeeking
           /\ pendingData' = r.pendingData
           /\ mediaTime' = r.time
           /\ mediaSeeking' = r.seeking
           /\ mediaEvents' = r.events
           /\ overlay' = r.overlay
           /\ lastAlign' = r.align

\* fetchTags' response: the list, of which the first tag is selected and its
\* load started by the selectedTag effect; an empty list; or a failure.
TagsResponse(tags) ==
    /\ TagsRequest \in fetches
    /\ availableTags' = tags
    /\ IF Len(tags) > 0
       THEN /\ selectedTag' = tags[1]
            /\ loading' = TRUE
            /\ error' = NoError
            /\ fetches' = (fetches \ {TagsRequest}) \cup {CsvRequest(tags[1])}
       ELSE /\ selectedTag' = selectedTag
            /\ error' = "No recordings found in __cursor_data folder"
            /\ loading' = FALSE
            /\ fetches' = fetches \ {TagsRequest}
    /\ lastEvent' = "TagsLoaded"
    /\ UNCHANGED <<timelineData, videoSrc, dataTag, currentIndex, schedVars, syncVars, geomVars,
                   mediaError>>

TagsFailure ==
    /\ TagsRequest \in fetches
    /\ fetches' = fetches \ {TagsRequest}
    /\ error' = "Failed to load available recordings"
    /\ loading' = FALSE
    /\ lastEvent' = "TagsFailed"
    /\ UNCHANGED <<timelineData, availableTags, selectedTag, videoSrc, dataTag, currentIndex,
                   schedVars, syncVars, geomVars, mediaError>>

\* loadData's response with the rows `data`: the three state updates make one
\* render, which mounts the viewer unless an error is set.
CsvResponse(request, data) ==
    /\ request \in fetches
    /\ request.url = "mouse_positions.csv"
    /\ fetches' = fetches \ {request}
    /\ timelineData' = data
    /\ videoSrc' = request.tag
    /\ dataTag' = request.tag
    /\ loading' = FALSE
    /\ IF error = NoError
       THEN ViewerMount(data)
       ELSE UNCHANGED <<currentIndex, isPlaying, playbackSpeed, playingIndexRef,
                        playIntervalRef, timers, syncVars, mediaError>>
    /\ Observe("CsvLoaded")
    /\ UNCHANGED <<availableTags, selectedTag, error, playFrom, elapsed, geomVars>>

\* The CSV is not there (response not ok) or the request fails.
CsvFailure(request) ==
    /\ request \in fetches
    /\ request.url = "mouse_positions.csv"
    /\ fetches' = fetches \ {request}
    /\ error' = "Failed to load CSV file"
    /\ loading' = FALSE
    /\ lastEvent' = "CsvFailed"
    /\ UNCHANGED <<timelineData, availableTags, selectedTag, videoSrc, dataTag, currentIndex,
                   schedVars, syncVars, geomVars, mediaError>>

\* Mutant of HandleTagChange: the selector is there while a recording loads.
HandleTagChange_WhileLoading(tag) ==
    /\ error = NoError
    /\ \E i \in 1..Len(availableTags) : availableTags[i] = tag
    /\ tag # selectedTag
    /\ selectedTag' = tag
    /\ loading' = TRUE
    /\ error' = NoError
    /\ fetches' = fetches \cup {CsvRequest(tag)}
    /\ ViewerUnmount
    /\ Observe("TagChange")
    /\ UNCHANGED <<timelineData, availableTags, videoSrc, dataTag, playFrom, elapsed, geomVars>>

\* Mutant of HandleTagChange: the selector is there whatever AppVideo renders.
HandleTagChange_AnyScreen(tag) ==
    /\ \E i \in 1..Len(availableTags) : availableTags[i] = tag
    /\ tag # selectedTag
    /\ selectedTag' = tag
    /\ loading' = TRUE
    /\ error' = NoError
    /\ fetches' = fetches \cup {CsvRequest(tag)}
    /\ ViewerUnmount
    /\ Observe("TagChange")
    /\ UNCHANGED <<timelineData, availableTags, videoSrc, dataTag, playFrom, elapsed, geomVars>>

\* Another recording is chosen in the selector, which is rendered with the
\* viewer only: the selectedTag effect calls loadData, whose setLoading(true)
\* replaces the viewer by <Loading />.
HandleTagChange(tag) ==
    /\ ~loading
    /\ error = NoError
    /\ \E i \in 1..Len(availableTags) : availableTags[i] = tag
    /\ tag # selectedTag
    /\ selectedTag' = tag
    /\ loading' = TRUE
    /\ error' = NoError
    /\ fetches' = fetches \cup {CsvRequest(tag)}
    /\ ViewerUnmount
    /\ Observe("TagChange")
    /\ UNCHANGED <<timelineData, availableTags, videoSrc, dataTag, playFrom, elapsed, geomVars>>

\* The media resource cannot be loaded: the element sets its error attribute
\* and sends "error", which no handler listens to.
MediaLoadFails ==
    /\ ViewerShown
    /\ readyState = 0
    /\ ~mediaError
    /\ mediaError' = TRUE
    /\ UNCHANGED <<timelineData, currentIndex, lastEvent, schedVars, syncVars, geomVars,
                   availableTags, selectedTag, videoSrc, dataTag, loading, error, fetches>>

\* The display component's commit when a scheduler step has changed
\* currentIndex, none otherwise.
Realign ==
    IF currentIndex' # currentIndex
    THEN /\ Len(mediaEvents) < MaxEvents
         /\ AlignTo(currentIndex', isFpsMode)
         /\ UNCHANGED <<isFpsMode, isBlinkEnabled, readyState, mediaDuration>>
    ELSE UNCHANGED syncVars

\* What a step of the mounted viewer leaves alone: the application and the
\* observers.
ViewerFrame ==
    UNCHANGED <<timelineData, lastEvent, prev, playFrom, elapsed, geomVars, appVars>>

\* The scheduler's steps in the mounted viewer, each with the display
\* component's commit.
AppPlayPause ==
    /\ ViewerShown
    /\ HandlePlayPauseStep
    /\ Realign
    /\ ViewerFrame

AppKeySpace ==
    /\ ViewerShown
    /\ KeySpaceStep
    /\ Realign
    /\ ViewerFrame

AppKeyArrowRight ==
    /\ ViewerShown
    /\ KeyArrowRightStep
    /\ Realign
    /\ ViewerFrame

AppKeyArrowLeft ==
    /\ ViewerShown
    /\ KeyArrowLeftStep
    /\ Realign
    /\ ViewerFrame

AppSliderChange(index) ==
    /\ ViewerShown
    /\ HandleSliderChangeStep(index)
    /\ Realign
    /\ ViewerFrame

AppSetPlaybackSpeed(speed) ==
    /\ ViewerShown
    /\ SetPlaybackSpeedStep(speed)
    /\ Realign
    /\ ViewerFrame

AppTimerFire(t) ==
    /\ ViewerShown
    /\ TimerFireStep(t)
    /\ Realign
    /\ ViewerFrame

AppTick ==
    /\ ViewerShown
    /\ TickStep
    /\ Realign
    /\ ViewerFrame

\* The media loads its metadata unless it has failed.
AppHandleVideoLoad == ViewerShown /\ ~mediaError /\ HandleVideoLoad

\* AppVideo after its first commit: nothing loaded, fetchTags in flight.
AppInit ==
    /\ timelineData = <<>>
    /\ availableTags = <<>>
    /\ selectedTag = ""
    /\ videoSrc = ""
    /\ dataTag = ""
    /\ loading = TRUE
    /\ error = NoError
    /\ fetches = {TagsRequest}
    /\ lastEvent = "Mount"
    /\ ViewerAbsent
    /\ GeometryIdle

AppNext ==
    \/ \E tags \in TagLists : TagsResponse(tags)
    \/ TagsFailure
    \/ \E request \in fetches : \E data \in AppTimelines : CsvResponse(request, data)
    \/ \E request \in fetches : CsvFailure(request)
    \/ \E i \in 1..Len(availableTags) : HandleTagChange(availableTags[i])
    \/ MediaLoadFails
    \/ AppPlayPause
    \/ AppKeySpace
    \/ AppKeyArrowRight
    \/ AppKeyArrowLeft
    \/ \E index \in 0..(NumSamples - 1) : AppSliderChange(index)
    \/ \E speed \in Speeds : AppSetPlaybackSpeed(speed)
    \/ \E t \in timers : AppTimerFire(t)
    \/ AppTick
    \/ ViewerShown /\ ToggleFpsMode
    \/ ViewerShown /\ WindowResize
    \/ AppHandleVideoLoad
    \/ ViewerShown /\ MediaLoadedData
    \/ ViewerShown /\ MediaSeekCompletes
    \/ ViewerShown /\ HandleSeeking
    \/ ViewerShown /\ HandleSeeked

AppSpec == AppInit /\ [][AppNext]_vars

---------------------------------------------------------------------------
(* The viewer whole: scheduler, display, styles and the blink toggle *)

MaxWholeLen == 2

\* One recording per length: a frame per sample, the cursor moving along a
\* diagonal; the media's natural size and the layout it is shown in.
WholeTimelines ==
    { [i \in 1..n |-> [frame_number |-> i - 1,
                       timestamp |-> FramePeriodMs * (i - 1),
                       x |-> 400 * i,
                       y |-> 300 * i]] : n \in 1..MaxWholeLen }

WholeNatural == [width |-> 1000, height |-> 1000]

WholeLayout ==
    [displayed |-> [width |-> 500, height |-> 500],
     container |-> [width |-> 800, height |-> 600]]

\* The blink overlay's place in ScreenshotDisplayVideo's render.
BlinkOverlayRendered == isFpsMode /\ isBlinkEnabled

\* The display component's commit, styles included, when a scheduler step has
\* changed currentIndex.
RealignStyled ==
    /\ Realign
    /\ IF currentIndex' # currentIndex
       THEN Restyle(lastAlign'.updated \/ (~isSeeking /\ readyState >= 2),
                    currentIndex', isFpsMode)
       ELSE UNCHANGED <<videoStyle, cursorStyle>>

\* What a scheduler step leaves alone here: the samples, the layout, the
\* application and the observers.
WholeFrame ==
    UNCHANGED <<timelineData, lastEvent, prev, playFrom, elapsed, naturalSize,
                displayedSize, containerRect, appVars>>

WholePlayPause ==
    /\ HandlePlayPauseStep
    /\ WholeFrame
    /\ RealignStyled

WholeSliderChange(index) ==
    /\ HandleSliderChangeStep(index)
    /\ WholeFrame
    /\ RealignStyled

WholeTimerFire(t) ==
    /\ TimerFireStep(t)
    /\ WholeFrame
    /\ RealignStyled

WholeTick ==
    /\ TickStep
    /\ WholeFrame
    /\ RealignStyled

\* The viewer mounted on a recording, the media not loaded.
BlinkInit ==
    /\ timelineData \in WholeTimelines
    /\ mediaDuration = (MaxWholeLen + 1) * FramePeriodMs
    /\ SchedulerInit
    /\ lastEvent = "Mount"
    /\ AppShowsViewer
    /\ DisplayMount
    /\ naturalSize = NoSize
    /\ displayedSize = WholeLayout.displayed
    /\ containerRect = WholeLayout.container
    /\ videoStyle = NoVideoStyle
    /\ cursorStyle = NoCursorStyle

BlinkNext ==
    \/ WholePlayPause
    \/ \E index \in 0..(NumSamples - 1) : WholeSliderChange(index)
    \/ \E t \in timers : WholeTimerFire(t)
    \/ WholeTick
    \/ ProjToggleFpsMode
    \/ ToggleBlink
    \/ ProjHandleVideoLoad(WholeNatural)
    \/ MediaLoadedData
    \/ MediaSeekCompletes
    \/ HandleSeeking
    \/ ProjHandleSeeked

BlinkSpec == BlinkInit /\ [][BlinkNext]_vars

---------------------------------------------------------------------------
(* The viewer on any parsed sequence, the empty one included *)

\* What loadData can parse: a CSV with a header and no row gives no sample.
AnyTimelines == Timelines \cup {<<>>}

\* TimelineViewerVideo renders the display and the control panel only when
\* timelineData[currentIndex] is defined, "No data available" otherwise.
ControlsShown == currentIndex \in 0..(NumSamples - 1)

ViewerInit ==
    /\ timelineData \in AnyTimelines
    /\ SchedulerInit
    /\ lastEvent = "Mount"
    /\ isFpsMode = FALSE
    /\ isBlinkEnabled = TRUE
    /\ isSeeking = FALSE
    /\ pendingData = -1
    /\ readyState = 0
    /\ mediaTime = 0
    /\ mediaDuration = 0
    /\ mediaSeeking = FALSE
    /\ mediaEvents = <<>>
    /\ overlay = NoOverlay
    /\ lastAlign = NoAlign
    /\ GeometryIdle
    /\ AppShowsViewer

\* The keyboard listener is on the window whatever is rendered; the buttons
\* and sliders of the control panel are there only when it is rendered.
ViewerNext ==
    \/ KeySpace
    \/ KeyArrowRight
    \/ KeyArrowLeft
    \/ ControlsShown /\ HandlePlayPause
    \/ ControlsShown /\ \E index \in 0..(NumSamples - 1) : HandleSliderChange(index)
    \/ ControlsShown /\ \E speed \in Speeds : SetPlaybackSpeed(speed)
    \/ \E t \in timers : TimerFire(t)
    \/ Tick

ViewerSpec == ViewerInit /\ [][ViewerNext]_vars

---------------------------------------------------------------------------
(* Claims about the playback scheduler, checked under Spec *)

\* C1: currentIndex is always a valid index, 0..N-1, and a keyboard step at a
\* boundary (ArrowRight at N-1, ArrowLeft at 0) leaves it where it is.
C1_IndexInRange ==
    /\ currentIndex \in 0..(NumSamples - 1)
    /\ (lastEvent = "ArrowRight" /\ prev.index = NumSamples - 1)
          => currentIndex = prev.index
    /\ (lastEvent = "ArrowLeft" /\ prev.index = 0) => currentIndex = prev.index

C1_Witness ==
    /\ lastEvent = "ArrowRight"
    /\ NumSamples >= 2
    /\ prev.index = NumSamples - 1
    /\ currentIndex = NumSamples - 1

\* C2: a slider scrub or a keyboard step that changes currentIndex while
\* Playing leaves playback stopped with no advancement pending.
C2_ExternalMutationPauses ==
    (/\ lastEvent \in {"Slider", "ArrowLeft", "ArrowRight"}
     /\ prev.isPlaying
     /\ currentIndex # prev.index)
        => (~isPlaying /\ timers = {})

\* C3: in an uninterrupted playback from index i at speed s every timer-driven
\* advancement moves one index forward, to index k exactly
\* (timestamp[k] - timestamp[i]) / s after play was commanded; below the last
\* index playback goes on with an advancement pending, at the last index it
\* has stopped.
C3_UninterruptedPlayback ==
    (lastEvent = "Timer" /\ playFrom >= 0)
        => /\ currentIndex = prev.index + 1
           /\ elapsed * playbackSpeed
                = (Sample(currentIndex).timestamp - Sample(playFrom).timestamp)
                    * SpeedUnit
           /\ currentIndex < NumSamples - 1 => (isPlaying /\ timers # {})
           /\ currentIndex = NumSamples - 1 => (~isPlaying /\ timers = {})

\* The spec's scenario: timestamps [0.0, 0.1, 0.3] at speed 1 have reached
\* index 2, 300 ms after play, and playback has stopped.
C3_Witness ==
    /\ lastEvent = "Timer"
    /\ playFrom = 0
    /\ NumSamples = 3
    /\ Sample(1).timestamp - Sample(0).timestamp = FramePeriodMs
    /\ Sample(2).timestamp - Sample(1).timestamp = 2 * FramePeriodMs
    /\ playbackSpeed = SpeedUnit
    /\ currentIndex = 2
    /\ elapsed = 3 * FramePeriodMs
    /\ ~isPlaying

\* C4: every pending advancement was scheduled from index i = nextIndex - 1
\* with delay (timestamp[i+1] - timestamp[i]) / speed for the current speed,
\* and at twice the speed the delay from the same index is half.
C4_ScheduledDelay ==
    /\ \A t \in timers :
          /\ t.nextIndex \in 1..(NumSamples - 1)
          /\ t.delay * playbackSpeed
               = (Sample(t.nextIndex).timestamp - Sample(t.nextIndex - 1).timestamp)
                   * SpeedUnit
    /\ \A i \in 0..(NumSamples - 2) : \A sp \in Speeds :
          (2 * sp \in Speeds)
             => 2 * AdjustedInterval(i, 2 * sp) = AdjustedInterval(i, sp)

C4_Witness ==
    /\ lastEvent = "Speed"
    /\ playbackSpeed = 2 * SpeedUnit
    /\ \E t \in timers : \E u \in prev.timers :
          /\ t.nextIndex = u.nextIndex
          /\ t.delay > 0
          /\ 2 * t.delay = u.delay

C6_PlayAtEndRestarts ==
    (/\ lastEvent \in {"PlayPause", "Space"}
     /\ NumSamples >= 2
     /\ prev.index = NumSamples - 1
     /\ ~prev.isPlaying)
        => /\ currentIndex = 0
           /\ isPlaying
           /\ \E t \in timers : t.nextIndex = 1

\* C7: a pause command (button or Space while Playing below the last index)
\* leaves playback stopped at the same index with no advancement pending.
C7_PauseCancels ==
    (/\ lastEvent \in {"PlayPause", "Space"}
     /\ prev.isPlaying
     /\ prev.index < NumSamples - 1)
        => /\ ~isPlaying
           /\ timers = {}
           /\ playIntervalRef = 0
           /\ currentIndex = prev.index

C7_Witness ==
    /\ lastEvent = "Space"
    /\ prev.isPlaying
    /\ prev.index < NumSamples - 1
    /\ \E t \in prev.timers : t.waited > 0 /\ t.waited < t.delay
    /\ ~isPlaying

\* C8: at most one advancement is pending, and it is the one playIntervalRef
\* holds: whatever starts or stops the timer loop has cancelled the one before.
C8_OnePendingTimer ==
    /\ Cardinality(timers) <= 1
    /\ \A t \in timers : t.id = playIntervalRef

C8_Witness ==
    /\ lastEvent = "Speed"
    /\ prev.timers # {}
    /\ isPlaying
    /\ Cardinality(timers) = 1
    /\ timers # prev.timers

\* C9 as stated: a speed change while an advancement is pending leaves the
\* in-flight wait as it was (same delay, same time waited).
C9_InFlightWaitKept ==
    (lastEvent = "Speed" /\ prev.timers # {}) => timers = prev.timers

\* C9 amended: a speed change while an advancement is pending cancels it; below
\* the last index a new advancement from the current index is scheduled with
\* the whole inter-sample delay at the new speed and nothing waited yet, at
\* the last index playback stops.
C9_SpeedChangeRestartsWait ==
    (lastEvent = "Speed" /\ prev.timers # {})
        => IF currentIndex < NumSamples - 1
           THEN /\ isPlaying
                /\ \E t \in timers :
                      /\ timers = {t}
                      /\ t.nextIndex = currentIndex + 1
                      /\ t.delay = AdjustedInterval(currentIndex, playbackSpeed)
                      /\ t.waited = 0
           ELSE ~isPlaying /\ timers = {}

C9_Witness ==
    /\ lastEvent = "Speed"
    /\ isPlaying
    /\ \E u \in prev.timers : u.waited > 0 /\ u.waited < u.delay
    /\ \E t \in timers : t.waited = 0

\* C23: a timer-driven advancement leaves currentIndex exactly one above the
\* value it had immediately before the timer fired, whatever inputs came
\* between the scheduling of the timer and its firing.
C23_TimerAdvancesFromCurrent ==
    lastEvent = "Timer" => currentIndex = prev.index + 1

---------------------------------------------------------------------------
(* Claims about termination, checked under LiveSpec *)

\* C28: if from some point on only timer steps occur (finitely many user
\* inputs), then whenever playback is Playing it is eventually stopped with
\* no advancement pending.
C28_PlaybackTerminates ==
    (<>[][TimerStep]_vars) => [](isPlaying => <>(~isPlaying /\ timers = {}))

\* A playback that keyboard or speed input interfered with has run to its
\* end: the timer's advancement stopped it, nothing is pending.
C28_Witness ==
    /\ lastEvent = "Timer"
    /\ playFrom = -1
    /\ prev.isPlaying
    /\ prev.timers # {}
    /\ NumSamples >= 3
    /\ ~isPlaying
    /\ timers = {}
    /\ playIntervalRef = 0

---------------------------------------------------------------------------
(* Claims about the frame-seek synchronizer, checked under SyncSpec *)

\* C10: the last alignment of the current sample (frame number f, target time
\* f / 10 s) issued a seek to the target if and only if the media position it
\* found differed from the target by more than 0.05 s; when it did not, no
\* seek was issued and updateDisplay was called at once.
C10_SeekIffOutOfTolerance ==
    LET target == TargetTime(Sample(currentIndex).frame_number)
    IN  IF Abs(lastAlign.mediaBefore - target) > ToleranceMs
        THEN lastAlign.seekTo = target /\ ~lastAlign.updated
        ELSE lastAlign.seekTo = -1 /\ lastAlign.updated

\* An alignment that found the media exactly ToleranceMs from the target and
\* issued no seek.
C10_Witness ==
    /\ Abs(lastAlign.mediaBefore - TargetTime(Sample(currentIndex).frame_number))
         = ToleranceMs
    /\ lastAlign.seekTo = -1
    /\ lastAlign.updated

C12_NoNewerSampleWhileSeeking ==
    [][(isSeeking /\ isSeeking' /\ pendingData' # -1 /\ overlay' # overlay)
          => overlay'.index = pendingData'
      ]_vars

\* C13: a "seeked" delivered while a newer seek is in progress is discarded:
\* isSeeking and pendingData stay as they are and the overlay is not
\* recomputed.
C13_StaleCompletionDiscarded ==
    [][(HandleSeeked /\ mediaSeeking)
          => (isSeeking' = isSeeking /\ pendingData' = pendingData
                /\ overlay' = overlay)
      ]_vars

\* C14: with the media loaded, no seek in progress and every media event
\* delivered, isSeeking is false, the media position is within ToleranceMs of
\* the current sample's target time and the overlay is positioned from the
\* current sample.
C14_CoalescesToLatest ==
    (readyState >= 1 /\ ~mediaSeeking /\ mediaEvents = <<>>)
        => /\ ~isSeeking
           /\ Abs(mediaTime - TargetTime(Sample(currentIndex).frame_number))
                <= ToleranceMs
           /\ overlay.index = currentIndex

\* C25: target times of distinct frame numbers are more than ToleranceMs
\* apart, so from a media position that is the target time of frame g a
\* sample of frame f needs a seek exactly when f # g; and whenever the last
\* alignment found the media at the target time of some frame g, it issued a
\* seek if and only if the current sample's frame number differs from g.
C25_SeekIffFrameDiffers ==
    /\ \A f, g \in 0..MaxFrame : NeedsSeek(TargetTime(g), f) <=> f # g
    /\ \A g \in 0..MaxFrame :
          lastAlign.mediaBefore = TargetTime(g)
             => (lastAlign.seekTo # -1 <=> Sample(currentIndex).frame_number # g)

\* A step onto the next frame number from a media position that was the
\* previous frame's target: a seek over one frame period was issued.
C25_Witness ==
    /\ currentIndex > 0
    /\ lastAlign.mediaBefore = TargetTime(Sample(currentIndex).frame_number - 1)
    /\ lastAlign.seekTo = TargetTime(Sample(currentIndex).frame_number)
    /\ lastAlign.seekTo - lastAlign.mediaBefore = FramePeriodMs
    /\ isSeeking
    /\ pendingData = currentIndex

---------------------------------------------------------------------------
(* Claims about failed seeks, checked under FailSpec *)

\* C24: once a requested seek is lost (it is no longer in progress and no
\* "seeked" is to come), until the next sample transition the overlay stays
\* that of the sample it showed and no step in the same mode starts a seek;
\* the next sample transition whose target is more than ToleranceMs from the
\* media position starts a seek to that target; and the "seeked" of the
\* latest seek makes isSeeking false and leaves the overlay computed from the
\* current sample.
C24_FailedSeekRecovers ==
    [][/\ (SeekLost /\ currentIndex' = currentIndex)
            => /\ overlay'.index = overlay.index
               /\ isFpsMode' = isFpsMode => ~mediaSeeking'
       /\ (/\ SeekLost
           /\ currentIndex' # currentIndex
           /\ NeedsSeek(mediaTime, Sample(currentIndex').frame_number))
            => /\ mediaSeeking'
               /\ lastAlign'.seekTo = TargetTime(Sample(currentIndex').frame_number)
       /\ (HandleSeeked /\ ~mediaSeeking /\ pendingData # -1)
            => /\ ~isSeeking'
               /\ pendingData' = -1
               /\ overlay'.index = currentIndex
      ]_vars

---------------------------------------------------------------------------
(* Claims about the overlay projector, checked under ProjSpec *)

\* C16: while the media's natural width or height is 0 no step changes the
\* marker's position or the media's transform, whatever trigger calls
\* updateDisplay; the step in which the metadata is loaded writes the geometry
\* of the sample that is current then, in the mode that is current then.
C16_NoOpUntilLoaded ==
    [][/\ (naturalSize'.width = 0 \/ naturalSize'.height = 0)
            => (videoStyle' = videoStyle /\ cursorStyle' = cursorStyle)
       /\ (naturalSize.width = 0 /\ naturalSize'.width # 0)
            => LET cursor == CursorPoint(Sample(currentIndex'), naturalSize',
                                         displayedSize')
                   r == IF isFpsMode'
                        THEN FpsStyles(cursor, containerRect')
                        ELSE DirectStyles(cursor)
               IN  videoStyle' = r.video /\ cursorStyle' = r.cursor
      ]_vars

\* The metadata has just been loaded after a sample change made before it: the
\* styles, untouched until then, are those of the sample now current.
C16_Witness ==
    /\ readyState = 1
    /\ currentIndex # 0
    /\ mediaSeeking
    /\ naturalSize.width # 0
    /\ cursorStyle # NoCursorStyle
    /\ cursorStyle = DirectStyles(CursorPoint(Sample(currentIndex), naturalSize,
                                              displayedSize)).cursor

\* C17: when the geometry was last written from the current sample (x, y) in
\* direct mode, the media is untransformed and the marker's top-left is at
\* ((x/2)*(dw/nw) - 10, (y/2)*(dh/nh) - 10) px: the centre of the 20-px marker
\* is the scaled cursor point.
C17_DirectModeMarker ==
    (overlay = [index |-> currentIndex, fps |-> FALSE] /\ naturalSize.width # 0)
        => LET data == Sample(currentIndex)
           IN  /\ videoStyle.transform = "none"
               /\ cursorStyle.unit = "px"
               /\ cursorStyle.transform = "none"
               /\ (cursorStyle.left.num + 10 * cursorStyle.left.den)
                     * 2 * naturalSize.width
                    = data.x * displayedSize.width * cursorStyle.left.den
               /\ (cursorStyle.top.num + 10 * cursorStyle.top.den)
                     * 2 * naturalSize.height
                    = data.y * displayedSize.height * cursorStyle.top.den

\* The spec's example: natural 1000x1000 displayed at 500x500, sample
\* (800, 600): the marker's top-left is (190, 140), its centre (200, 150).
C17_Witness ==
    /\ overlay = [index |-> currentIndex, fps |-> FALSE]
    /\ naturalSize = [width |-> 1000, height |-> 1000]
    /\ displayedSize = [width |-> 500, height |-> 500]
    /\ Sample(currentIndex).x = 800
    /\ Sample(currentIndex).y = 600
    /\ cursorStyle.unit = "px"
    /\ cursorStyle.left.num = 190 * cursorStyle.left.den
    /\ cursorStyle.top.num = 140 * cursorStyle.top.den

\* C18: when the geometry was last written from the current sample in POV
\* mode, the marker is pinned at the wrapper's centre (50%, 50%, shifted back
\* by half its size) and the media is translated by
\* (containerWidth/2 - cursorX, containerHeight/2 - cursorY), cursorX =
\* (x/2)*(dw/nw), cursorY = (y/2)*(dh/nh): the translation plus the cursor
\* point is the wrapper's centre.
C18_PovModeCentred ==
    (overlay = [index |-> currentIndex, fps |-> TRUE] /\ naturalSize.width # 0)
        => LET data == Sample(currentIndex)
           IN  /\ cursorStyle.unit = "%"
               /\ cursorStyle.left = Frac(50, 1)
               /\ cursorStyle.top = Frac(50, 1)
               /\ cursorStyle.transform = "translate(-50%, -50%)"
               /\ videoStyle.transform = "translate"
               /\ videoStyle.x.num * 2 * naturalSize.width
                    = (containerRect.width * naturalSize.width
                         - data.x * displayedSize.width) * videoStyle.x.den
               /\ videoStyle.y.num * 2 * naturalSize.height
                    = (containerRect.height * naturalSize.height
                         - data.y * displayedSize.height) * videoStyle.y.den

\* Wrapper 800x600, natural 1000x1000 displayed at 500x500, sample (800, 600):
\* the cursor point (200, 150) is brought to the centre (400, 300) by the
\* translation (200, 150).
C18_Witness ==
    /\ overlay = [index |-> currentIndex, fps |-> TRUE]
    /\ naturalSize = [width |-> 1000, height |-> 1000]
    /\ displayedSize = [width |-> 500, height |-> 500]
    /\ containerRect = [width |-> 800, height |-> 600]
    /\ Sample(currentIndex).x = 800
    /\ Sample(currentIndex).y = 600
    /\ videoStyle.transform = "translate"
    /\ videoStyle.x.num = 200 * videoStyle.x.den
    /\ videoStyle.y.num = 150 * videoStyle.y.den

---------------------------------------------------------------------------
(* Claims about the application, checked under AppSpec *)

\* C15: from a recording switch until the new recording's viewer is mounted
\* currentIndex is 0, playback is stopped, isSeeking is false and no
\* advancement timer, seek or media event of the previous recording is left;
\* the new viewer starts at index 0, stopped, with no timer, and a seek it
\* has in progress is its own, for sample 0; every pending timer is the one
\* the mounted viewer holds in playIntervalRef.
C15_SwitchResetsViewer ==
    [][/\ loading'
            => /\ currentIndex' = 0
               /\ ~isPlaying'
               /\ ~isSeeking'
               /\ pendingData' = -1
               /\ timers' = {}
               /\ ~mediaSeeking'
               /\ mediaEvents' = <<>>
       /\ (loading /\ ~loading' /\ error' = NoError)
            => /\ currentIndex' = 0
               /\ ~isPlaying'
               /\ timers' = {}
               /\ mediaEvents' = <<>>
               /\ isSeeking' => pendingData' = 0
               /\ overlay' # NoOverlay => overlay'.index = 0
       /\ \A t \in timers' : t.id = playIntervalRef'
      ]_vars

\* The recording has just been switched while playing, part of the wait for
\* the next advancement over: nothing of it is left.
C15_Witness ==
    /\ lastEvent = "TagChange"
    /\ prev.isPlaying
    /\ \E t \in prev.timers : t.waited > 0 /\ t.waited < t.delay
    /\ loading
    /\ ~isPlaying
    /\ timers = {}
    /\ currentIndex = 0

\* C19: after a failed load of the sample resource, and whenever the media
\* resource has failed to load, the application shows the error state
\* (error set, not loading) and not the viewer.
C19_LoadFailureShowsError ==
    /\ lastEvent = "CsvFailed" => (error # NoError /\ ~loading)
    /\ mediaError => (error # NoError /\ ~loading /\ ~ViewerShown)

\* C20: whenever an error is set the application is not loading and no
\* request is in flight, and no step out of such a state changes the error,
\* the selected recording, the samples or the media source: the application
\* never returns to the loading or the ready screen.
C20_ErrorTerminal ==
    [][/\ error' # NoError => (~loading' /\ fetches' = {} /\ ~ViewerShown')
       /\ error # NoError
            => /\ error' = error
               /\ selectedTag' = selectedTag
               /\ timelineData' = timelineData
               /\ videoSrc' = videoSrc
      ]_vars

\* A switch to another recording has failed to load its samples: the error
\* is shown in place of the viewer of the recording loaded before.
C20_Witness ==
    /\ error = "Failed to load CSV file"
    /\ videoSrc # ""
    /\ selectedTag # videoSrc
    /\ ~loading
    /\ fetches = {}

\* C26: a step of the mounted viewer that changes the playback speed or
\* toggles the mode leaves currentIndex and isPlaying as they are and, when
\* playback is stopped, leaves no advancement timer pending; a mode toggle
\* leaves the pending timer and its handle as they are.
C26_SpeedAndModeKeepPlayback ==
    [][LET speedChange == ~loading /\ ~loading' /\ playbackSpeed' # playbackSpeed
           modeToggle == ~loading /\ ~loading' /\ isFpsMode' # isFpsMode
       IN  /\ (speedChange \/ modeToggle)
                => /\ currentIndex' = currentIndex
                   /\ isPlaying' = isPlaying
                   /\ ~isPlaying => timers' = {}
           /\ modeToggle
                => /\ timers' = timers
                   /\ playIntervalRef' = playIntervalRef
      ]_vars

\* C27: at most one request is in flight, and a recording load in flight is
\* for the selected tag; whenever the viewer is shown (not loading, no error)
\* nothing is in flight and the samples and the media source were loaded
\* from the same tag, the selected one.
C27_OneLoadSameTag ==
    /\ Cardinality(fetches) <= 1
    /\ \A r \in fetches : r.url = "mouse_positions.csv" => r.tag = selectedTag
    /\ (~loading /\ error = NoError)
          => /\ fetches = {}
             /\ dataTag = videoSrc
             /\ videoSrc = selectedTag

\* The second recording has been loaded after the first was shown: samples
\* and media are both its own.
C27_Witness ==
    /\ lastEvent = "CsvLoaded"
    /\ ~loading
    /\ error = NoError
    /\ selectedTag = Tags[2]
    /\ dataTag = Tags[2]
    /\ videoSrc = Tags[2]

---------------------------------------------------------------------------
(* Claims about the viewer on any sequence, checked under ViewerSpec *)

\* C21: while the sample sequence is empty no step changes currentIndex or
\* isPlaying and none leaves an advancement timer pending.
C21_EmptyControlsDisabled ==
    [][NumSamples = 0
          => /\ currentIndex' = currentIndex
             /\ isPlaying' = isPlaying
             /\ timers' = {}
      ]_vars

---------------------------------------------------------------------------
(* Claims about the whole viewer, checked under BlinkSpec *)

\* C22: a step that toggles isBlinkEnabled changes nothing else: not
\* currentIndex, isPlaying, the speed, the pending timer or its handle, not
\* the mode, isSeeking, pendingData, the media's position, its seek in
\* progress or its queued events (no seek is issued), not the overlay or the
\* styles written; and the blink overlay is rendered in POV mode only.
C22_BlinkIsCosmetic ==
    [][/\ isBlinkEnabled' # isBlinkEnabled
            => UNCHANGED <<currentIndex, isPlaying, playbackSpeed, playingIndexRef,
                           playIntervalRef, timers, isFpsMode, isSeeking, pendingData,
                           readyState, mediaTime, mediaSeeking, mediaEvents, overlay,
                           lastAlign, videoStyle, cursorStyle>>
       /\ BlinkOverlayRendered' => isFpsMode'
      ]_vars

\* Blink is off while playback is under way, part of the wait for the next
\* advancement over, and a seek is in progress.
C22_Witness ==
    /\ ~isBlinkEnabled
    /\ isFpsMode
    /\ isPlaying
    /\ \E t \in timers : t.waited > 0 /\ t.waited < t.delay
    /\ isSeeking
    /\ mediaSeeking
    /\ ENABLED ToggleBlink

====
